---- MODULE Spec2Model ----
(***************************************************************************)
(* A model of capitol_trader_scraper.py: the helpers of                    *)
(* BeautifulSoupHelpers, DataFrameCleaner.parse_size, and the run of the   *)
(* script (__main__ -> number_of_pages -> scrape_trades -> to_csv).        *)
(*                                                                         *)
(* A text is a sequence of one-character strings, so that str.strip,       *)
(* str.split, str.replace, int and float are computed and not assumed.     *)
(* An optional value (Python's None or a value) is None or Some(v).        *)
(* A call that may raise yields Return(v) or Raise(exception name).        *)
(***************************************************************************)
EXTENDS Integers, Sequences, FiniteSets, TLC

\* Largest total page count the listing's first page announces.
MaxPages == 3
\* Largest number written as a bound of a size range.
MaxBound == 15

None == [some |-> FALSE]
Some(v) == [some |-> TRUE, val |-> v]
Return(v) == [ok |-> TRUE, val |-> v]
Raise(e) == [ok |-> FALSE, err |-> e]

----------------------------------------------------------------------------
\* Texts and the string methods the program calls.

Whitespace == {" ", "\n", "\t"}
Digits == <<"0", "1", "2", "3", "4", "5", "6", "7", "8", "9">>
DigitChars == {Digits[i] : i \in 1..10}
EnDash == "u2013"
Hyphen == "-"

DigitVal(c) == (CHOOSE i \in 1..10 : Digits[i] = c) - 1

\* str(n) of a natural number: the text a page or a fixture writes a number as.
RECURSIVE str(_)
str(n) == IF n < 10 THEN <<Digits[n + 1]>> ELSE str(n \div 10) \o <<Digits[(n % 10) + 1]>>

RECURSIVE lstrip(_)
lstrip(s) == IF s # <<>> /\ Head(s) \in Whitespace THEN lstrip(Tail(s)) ELSE s

RECURSIVE rstrip(_)
rstrip(s) ==
    IF s # <<>> /\ s[Len(s)] \in Whitespace
    THEN rstrip(SubSeq(s, 1, Len(s) - 1))
    ELSE s

\* str.strip(): leading and trailing whitespace removed.
strip(s) == rstrip(lstrip(s))

\* The trailing element kept.
DropLast_keep(s) == s

\* seq[:-1]: all but the last element; the empty sequence stays empty.
DropLast(s) == SubSeq(s, 1, Len(s) - 1)

\* The value of a text of decimal digits, read left to right.
RECURSIVE DigitsValue(_, _)
DigitsValue(s, acc) ==
    IF s = <<>> THEN acc ELSE DigitsValue(Tail(s), 10 * acc + DigitVal(Head(s)))

IsDigits(s) == s # <<>> /\ \A i \in 1..Len(s) : s[i] \in DigitChars

\* int(x): TypeError for None, ValueError for a text that is no integer literal.
int(x) ==
    IF ~x.some THEN Raise("TypeError")
    ELSE IF IsDigits(x.val) THEN Return(DigitsValue(x.val, 0))
    ELSE Raise("ValueError")

\* float(s) on the integer literals the size column holds.
float(s) == IF IsDigits(s) THEN Return(DigitsValue(s, 0)) ELSE Raise("ValueError")

\* s.replace(c, ''): every occurrence of the character removed.
replace(s, c) == LET Keep(x) == x # c IN SelectSeq(s, Keep)

\* c in s
Contains(s, c) == \E i \in 1..Len(s) : s[i] = c

\* s.split(sep) for a one-character separator: the parts between separators.
RECURSIVE split(_, _, _)
split(s, sep, cur) ==
    IF s = <<>> THEN <<cur>>
    ELSE IF Head(s) = sep THEN <<cur>> \o split(Tail(s), sep, <<>>)
    ELSE split(Tail(s), sep, Append(cur, Head(s)))

\* A range that stops one short.
range_short(a, b) == [i \in 1..(IF b - 1 > a THEN b - 1 - a ELSE 0) |-> a + i - 1]

\* range(a, b): a, a+1, ..., b-1.
range(a, b) == [i \in 1..(IF b > a THEN b - a ELSE 0) |-> a + i - 1]

----------------------------------------------------------------------------
\* DataFrameCleaner.parse_size

to_number(s) ==
    IF Contains(s, "K")
    THEN LET f == float(replace(s, "K")) IN
         IF f.ok THEN Return(f.val * 1000) ELSE f
    ELSE IF Contains(s, "M")
    THEN LET f == float(replace(s, "M")) IN
         IF f.ok THEN Return(f.val * 1000000) ELSE f
    ELSE float(s)

\* The suffix looked up in the whole range text.
parse_size_whole(s, minimum_val) ==
    LET parts == split(s, EnDash, <<>>)
        scale == IF Contains(s, "K") THEN 1000 ELSE IF Contains(s, "M") THEN 1000000 ELSE 1
        num(x) == LET f == float(replace(replace(x, "K"), "M")) IN
                  IF f.ok THEN Return(f.val * scale) ELSE f
    IN  IF Len(parts) # 2 THEN Raise("ValueError")
        ELSE IF minimum_val THEN num(parts[1])
        ELSE num(parts[2])

parse_size(s, minimum_val) ==
    LET parts == split(s, EnDash, <<>>) IN
    IF Len(parts) # 2 THEN Raise("ValueError")
    ELSE IF minimum_val THEN to_number(parts[1])
    ELSE to_number(parts[2])

----------------------------------------------------------------------------
\* Documents.  A table is a sequence of tr elements, a tr a sequence of cells,
\* a cell a tag (th or td) and its text.  A soup holds what the program reads
\* of a page: the bold runs of the descriptive paragraph and the trades table,
\* each absent (None) or present.

th(t) == [tag |-> "th", text |-> t]
td(t) == [tag |-> "td", text |-> t]

\* row.find_all(tag): the cells of a tr with that tag, in document order.
find_all(row, tag) == LET Is(c) == c.tag = tag IN SelectSeq(row, Is)

RECURSIVE table_find_all(_, _)
\* table.find_all('th'): the th cells of every tr, in document order.
table_find_all(table, tag) ==
    IF table = <<>> THEN <<>>
    ELSE find_all(Head(table), tag) \o table_find_all(Tail(table), tag)

Texts(cells) == [i \in 1..Len(cells) |-> strip(cells[i].text)]

get_table_headers(table) ==
    IF ~table.some THEN Raise("AttributeError")
    ELSE Return(Texts(table_find_all(table.val, "th")))

RECURSIVE table_rows(_)
\* The loop over table.find_all('tr') of scrape_table.
table_rows(table) ==
    IF table = <<>> THEN <<>>
    ELSE LET cells == find_all(Head(table), "td") IN
         (IF Len(cells) > 0 THEN <<DropLast(Texts(cells))>> ELSE <<>>)
             \o table_rows(Tail(table))

\* "if not headers:" in place of "if headers is None:".
scrape_table_falsy(soup, hdrs) ==
    LET table == soup.table
        derive == ~hdrs.some \/ hdrs.val = <<>>
        got == IF derive THEN get_table_headers(table) ELSE Return(hdrs.val)
    IN  IF ~got.ok THEN got
        ELSE Return([rows |-> IF table.some THEN table_rows(table.val) ELSE <<>>,
                     headers |-> IF derive THEN DropLast(got.val) ELSE got.val])

scrape_table(soup, hdrs) ==
    LET table == soup.table
        got == IF ~hdrs.some THEN get_table_headers(table) ELSE Return(hdrs.val)
    IN  IF ~got.ok THEN got
        ELSE Return([rows |-> IF table.some THEN table_rows(table.val) ELSE <<>>,
                     headers |-> IF ~hdrs.some THEN DropLast(got.val) ELSE got.val])

\* A missing count read as one page.
number_of_pages_default(soup) ==
    LET page_info == soup.page_info
        total_pages == IF page_info.some /\ Len(page_info.val) > 1
                       THEN Some(strip(page_info.val[2]))
                       ELSE Some(str(1))
    IN  int(total_pages)

number_of_pages(soup) ==
    LET page_info == soup.page_info
        total_pages == IF page_info.some /\ Len(page_info.val) > 1
                       THEN Some(strip(page_info.val[2]))
                       ELSE None
    IN  int(total_pages)

\* The new rows put in front of the collected ones.
extend_front(rows, new_rows, hdrs) == IF new_rows # <<>> THEN new_rows \o rows ELSE rows

\* A page whose rows do not fit the header is left out.
extend_fitting(rows, new_rows, hdrs) ==
    IF new_rows # <<>> /\ Len(new_rows[1]) = Len(hdrs) THEN rows \o new_rows ELSE rows

\* The body of "if page_rows:": the length test, whose branch is a pass, and
\* all_rows.extend(page_rows).
extend(rows, new_rows, hdrs) ==
    IF new_rows # <<>>
    THEN IF Len(new_rows[1]) # Len(hdrs) THEN rows \o new_rows ELSE rows \o new_rows
    ELSE rows

\* self.url, and the f-string of the loop.
base_url == <<"https://www.capitoltrades.com/trades">>

\* Page 1 fetched from the unpaginated URL.
page_url_from_two(p) ==
    IF p = 1 THEN <<"https://www.capitoltrades.com/trades">>
    ELSE <<"https://www.capitoltrades.com/trades", "?page=", p>>

page_url(p) == <<"https://www.capitoltrades.com/trades", "?page=", p>>

----------------------------------------------------------------------------
\* The documents the site may serve.

tA == <<"A">>
tB == <<"B">>
tC == <<"C">>
tActions == <<"A", "c", "t", "i", "o", "n", "s">>
tx == <<"x">>
ty == <<"y">>
tz == <<"z">>
tp == <<"p">>
tq == <<"q">>
tr_ == <<"r">>

HeaderRow == <<th(tA), th(tB), th(tActions)>>

PageTables == {
    \* a header row and no data row
    <<HeaderRow>>,
    \* the two pages of the end-to-end fixture
    <<HeaderRow, <<td(tx), td(ty), td(tz)>>>>,
    <<<<th(tC), th(tB), th(tActions)>>, <<td(tp), td(tq), td(tr_)>>>>,
    \* texts with whitespace around them
    <<<<th(<<" ", "A">>), th(<<"B", "\n">>), th(tActions)>>,
      <<td(<<" ", "x", " ">>), td(ty), td(tz)>>>>,
    \* rows whose cell count is not the header's, one of a single cell
    <<HeaderRow, <<td(tx), td(ty)>>, <<td(tz)>>>>,
    \* a tr without cells, and a body row that starts with a th
    <<HeaderRow, <<>>, <<th(tr_), td(tp), td(tq), td(tz)>>>>,
    \* no header cell at all
    <<<<td(tp), td(tq), td(tr_)>>>>
  }

\* What get_html_soup may return for a ?page=n URL.
PageSoups ==
    {[page_info |-> None, table |-> None]}
        \cup {[page_info |-> None, table |-> Some(t)] : t \in PageTables}

\* What get_html_soup may return for the base URL: the paragraph absent, with
\* fewer than two bold runs, or with the page count as its second bold run.
BaseSoups ==
    {[page_info |-> pi, table |-> None] :
        pi \in {None, Some(<<>>), Some(<<str(1)>>), Some(<<str(1), tx>>),
                Some(<<str(1), <<" ">> \o str(2) \o <<"\n">>>>)}
               \cup {Some(<<str(1), str(n)>>) : n \in 0..MaxPages}}

----------------------------------------------------------------------------
\* The run of the script.

VARIABLES
    pc,           \* where the run is: main, scrape, loop, extract, frame, write,
                  \* done, failed (an exception left the script); idle: no run
    failed_in,    \* the step the exception was raised in
    error,        \* the exception
    requests,     \* every URL passed to requests.get, in order
    soup,         \* the document the last get_html_soup returned
    docs,         \* the documents returned for the page URLs, in order
    total_pages,  \* scrape_trades' total_pages
    it,           \* how many items the for loop has taken from its range
    headers,      \* scrape_trades' headers
    page_rows,    \* scrape_trades' page_rows
    all_rows,     \* scrape_trades' all_rows
    df,           \* the frame scrape_trades returned
    csv,          \* the frame written to the output file
    size_str,     \* parse_size's arguments and result
    minimum_val,
    size_out,
    size_in,      \* how size_str was written: its two numbers, suffixes, form
    t_soup,       \* scrape_table's arguments and result, called on its own
    t_headers,
    t_out

run_vars == <<pc, failed_in, error, requests, soup, docs, total_pages, it,
              headers, page_rows, all_rows, df, csv>>
size_vars == <<size_str, minimum_val, size_out, size_in>>
table_vars == <<t_soup, t_headers, t_out>>
vars == <<run_vars, size_vars, table_vars>>

\* The for loop's range.
pages == range(1, total_pages.val + 1)

NoSize ==
    /\ size_str = <<>>
    /\ minimum_val = TRUE
    /\ size_out = None
    /\ size_in = None

NoTableCall ==
    /\ t_soup = None
    /\ t_headers = None
    /\ t_out = None

NoRun ==
    /\ pc = "idle"
    /\ failed_in = "none"
    /\ error = "none"
    /\ requests = <<>>
    /\ soup = None
    /\ docs = <<>>
    /\ total_pages = None
    /\ it = 0
    /\ headers = None
    /\ page_rows = <<>>
    /\ all_rows = <<>>
    /\ df = None
    /\ csv = None

Init ==
    /\ pc = "main"
    /\ failed_in = "none"
    /\ error = "none"
    /\ requests = <<>>
    /\ soup = None
    /\ docs = <<>>
    /\ total_pages = None
    /\ it = 0
    /\ headers = None
    /\ page_rows = <<>>
    /\ all_rows = <<>>
    /\ df = None
    /\ csv = None
    /\ NoSize
    /\ NoTableCall

\* An exception nobody catches ends the script.
Abort(step, e) ==
    /\ pc' = "failed"
    /\ failed_in' = step
    /\ error' = e

\* print(scraper.number_of_pages) of __main__: the count is printed and dropped.
MainCount ==
    /\ pc = "main"
    /\ requests' = Append(requests, base_url)
    /\ \E s \in BaseSoups :
        /\ soup' = s
        /\ LET n == number_of_pages(s) IN
           IF n.ok
           THEN pc' = "scrape" /\ UNCHANGED <<failed_in, error>>
           ELSE Abort("main", n.err)
    /\ UNCHANGED <<docs, total_pages, it, headers, page_rows, all_rows, df, csv>>
    /\ UNCHANGED <<size_vars, table_vars>>

\* raise_for_status (or requests.get) raises in get_html_soup.
MainCountFetchFails ==
    /\ pc = "main"
    /\ requests' = Append(requests, base_url)
    /\ Abort("main", "HTTPError")
    /\ UNCHANGED <<soup, docs, total_pages, it, headers, page_rows, all_rows, df, csv>>
    /\ UNCHANGED <<size_vars, table_vars>>

\* scrape_trades up to its loop: total_pages, all_rows = [], headers = None.
ScrapeCount ==
    /\ pc = "scrape"
    /\ requests' = Append(requests, base_url)
    /\ \E s \in BaseSoups :
        /\ soup' = s
        /\ LET n == number_of_pages(s) IN
           IF n.ok
           THEN /\ total_pages' = Some(n.val)
                /\ pc' = "loop"
                /\ UNCHANGED <<failed_in, error>>
           ELSE /\ Abort("count", n.err)
                /\ UNCHANGED total_pages
    /\ it' = 0
    /\ all_rows' = <<>>
    /\ headers' = None
    /\ UNCHANGED <<docs, page_rows, df, csv>>
    /\ UNCHANGED <<size_vars, table_vars>>

ScrapeCountFetchFails ==
    /\ pc = "scrape"
    /\ requests' = Append(requests, base_url)
    /\ Abort("count", "HTTPError")
    /\ UNCHANGED <<soup, docs, total_pages, it, headers, page_rows, all_rows, df, csv>>
    /\ UNCHANGED <<size_vars, table_vars>>

\* The loop takes its next page and get_html_soup returns its document.
FetchPage ==
    /\ pc = "loop"
    /\ it < Len(pages)
    /\ it' = it + 1
    /\ requests' = Append(requests, page_url(pages[it + 1]))
    /\ \E s \in PageSoups :
        /\ soup' = s
        /\ docs' = Append(docs, s)
    /\ pc' = "extract"
    /\ UNCHANGED <<failed_in, error, total_pages, headers, page_rows, all_rows, df, csv>>
    /\ UNCHANGED <<size_vars, table_vars>>

\* The failed page is skipped and the loop goes on.
FetchPageFails_skip ==
    /\ pc = "loop"
    /\ it < Len(pages)
    /\ it' = it + 1
    /\ requests' = Append(requests, page_url(pages[it + 1]))
    /\ failed_in' = "fetch"
    /\ error' = "HTTPError"
    /\ UNCHANGED <<pc, soup, docs, total_pages, headers, page_rows, all_rows, df, csv>>
    /\ UNCHANGED <<size_vars, table_vars>>

\* The loop takes its next page and get_html_soup raises.
FetchPageFails ==
    /\ pc = "loop"
    /\ it < Len(pages)
    /\ it' = it + 1
    /\ requests' = Append(requests, page_url(pages[it + 1]))
    /\ Abort("fetch", "HTTPError")
    /\ UNCHANGED <<soup, docs, total_pages, headers, page_rows, all_rows, df, csv>>
    /\ UNCHANGED <<size_vars, table_vars>>

\* page_rows, headers = self.scrape_table(soup, headers) and the extend.
Extract ==
    /\ pc = "extract"
    /\ LET r == scrape_table(soup, headers) IN
       IF r.ok
       THEN /\ page_rows' = r.val.rows
            /\ headers' = Some(r.val.headers)
            /\ all_rows' = extend(all_rows, r.val.rows, r.val.headers)
            /\ pc' = "loop"
            /\ UNCHANGED <<failed_in, error>>
       ELSE /\ Abort("extract", r.err)
            /\ UNCHANGED <<page_rows, headers, all_rows>>
    /\ UNCHANGED <<requests, soup, docs, total_pages, it, df, csv>>
    /\ UNCHANGED <<size_vars, table_vars>>

\* Some row of all_rows has not as many values as the schema has names.
Ragged == headers.some /\ \E i \in 1..Len(all_rows) : Len(all_rows[i]) # Len(headers.val)

\* The loop is over: pl.DataFrame(all_rows, schema=headers, orient='row').
BuildFrame ==
    /\ pc = "loop"
    /\ it = Len(pages)
    /\ df' = Some([schema |-> headers, rows |-> all_rows])
    /\ pc' = "write"
    /\ UNCHANGED <<failed_in, error, requests, soup, docs, total_pages, it,
                   headers, page_rows, all_rows, csv>>
    /\ UNCHANGED <<size_vars, table_vars>>

\* The frame library, which is not part of the repository, may reject rows
\* that do not fit the schema.
BuildFrameFails ==
    /\ pc = "loop"
    /\ it = Len(pages)
    /\ Ragged
    /\ Abort("frame", "ShapeError")
    /\ UNCHANGED <<requests, soup, docs, total_pages, it, headers, page_rows,
                   all_rows, df, csv>>
    /\ UNCHANGED <<size_vars, table_vars>>

\* df_raw.to_pandas().to_csv(path, index=False, sep=';')
WriteCsv ==
    /\ pc = "write"
    /\ csv' = df
    /\ pc' = "done"
    /\ UNCHANGED <<failed_in, error, requests, soup, docs, total_pages, it,
                   headers, page_rows, all_rows, df>>
    /\ UNCHANGED <<size_vars, table_vars>>

\* The output directory is missing, or the file cannot be written.
WriteCsvFails ==
    /\ pc = "write"
    /\ Abort("write", "OSError")
    /\ UNCHANGED <<requests, soup, docs, total_pages, it, headers, page_rows,
                   all_rows, df, csv>>
    /\ UNCHANGED <<size_vars, table_vars>>

Next ==
    \/ MainCount
    \/ MainCountFetchFails
    \/ ScrapeCount
    \/ ScrapeCountFetchFails
    \/ FetchPage
    \/ FetchPageFails
    \/ Extract
    \/ BuildFrame
    \/ BuildFrameFails
    \/ WriteCsv
    \/ WriteCsvFails

Spec == Init /\ [][Next]_vars

----------------------------------------------------------------------------
\* parse_size on its own: the Size values of a column, one call each.

Suffixes == {<<>>, <<"K">>, <<"M">>}
Forms == {"range", "single", "hyphen", "triple"}

\* A bound as the site writes it: the number, then its suffix.
Bound(n, suf) == str(n) \o suf

\* The text of a Size value of each form: a range with one en-dash, one bound
\* alone, two bounds with a hyphen between them, three bounds.
SizeText(i) ==
    CASE i.form = "range" -> Bound(i.a, i.asuf) \o <<EnDash>> \o Bound(i.b, i.bsuf)
      [] i.form = "single" -> Bound(i.a, i.asuf)
      [] i.form = "hyphen" -> Bound(i.a, i.asuf) \o <<Hyphen>> \o Bound(i.b, i.bsuf)
      [] i.form = "triple" -> Bound(i.a, i.asuf) \o <<EnDash>> \o Bound(i.b, i.bsuf)
                                  \o <<EnDash>> \o Bound(i.a, i.asuf)

SizeInputs ==
    [a : 0..MaxBound, asuf : Suffixes, b : 0..MaxBound, bsuf : Suffixes, form : Forms]

InitSize ==
    /\ NoRun
    /\ NoTableCall
    /\ \E i \in SizeInputs :
        /\ size_in = Some(i)
        /\ size_str = SizeText(i)
    /\ minimum_val \in BOOLEAN
    /\ size_out = None

\* One call parse_size(size_str, minimum_val).
ParseSize ==
    /\ size_out = None
    /\ size_in.some
    /\ size_out' = Some(parse_size(size_str, minimum_val))
    /\ UNCHANGED <<size_str, minimum_val, size_in>>
    /\ UNCHANGED <<run_vars, table_vars>>

NextSize == ParseSize

SpecSize == InitSize /\ [][NextSize]_vars

----------------------------------------------------------------------------
\* scrape_table on its own: every table of up to MaxTr rows of up to MaxCells
\* cells, with and without a header sequence passed in.

\* Most tr elements of a table.
MaxTr == 2
\* Most cells of a tr.
MaxCells == 2

Cells == {th(tA), th(<<" ", "B", "\n">>), td(<<"x", " ">>), td(ty)}
SeqsUpTo(S, n) == UNION {[1..k -> S] : k \in 0..n}
Tables == SeqsUpTo(SeqsUpTo(Cells, MaxCells), MaxTr)

InitTable ==
    /\ NoRun
    /\ NoSize
    /\ t_soup \in {[page_info |-> None, table |-> None]}
                     \cup {[page_info |-> None, table |-> Some(t)] : t \in Tables}
    /\ t_headers \in {None, Some(<<tC>>)}
    /\ t_out = None

\* One call scrape_table(t_soup, t_headers).
ScrapeTable ==
    /\ t_out = None
    /\ t_soup # None
    /\ t_out' = Some(scrape_table(t_soup, t_headers))
    /\ UNCHANGED <<t_soup, t_headers>>
    /\ UNCHANGED <<run_vars, size_vars>>

NextTable == ScrapeTable

SpecTable == InitTable /\ [][NextTable]_vars

----------------------------------------------------------------------------
\* The vocabulary of the properties, stated on the documents themselves.

IsPageUrl(u) == Len(u) = 3
\* The requests for ?page=n URLs, in the order they were issued.
PageRequests == SelectSeq(requests, IsPageUrl)
\* The page numbers requested, in order.
PagesRequested == [i \in 1..Len(PageRequests) |-> PageRequests[i][3]]
BaseRequests == LET IsBase(u) == Len(u) = 1 IN SelectSeq(requests, IsBase)

\* scrape_trades has returned its frame.
Returned == df.some
N == total_pages.val

RECURSIVE Flatten(_)
\* Every cell of a table, in document order.
Flatten(table) == IF table = <<>> THEN <<>> ELSE Head(table) \o Flatten(Tail(table))

IsTh(c) == c.tag = "th"
IsTd(c) == c.tag = "td"
HasTd(row) == \E i \in 1..Len(row) : IsTd(row[i])

\* The header cells of a table, and its rows with at least one data cell.
HeaderCells(table) == SelectSeq(Flatten(table), IsTh)
DataTrs(table) == SelectSeq(table, HasTd)
DataCells(row) == SelectSeq(row, IsTd)

\* A cell's text, trimmed or as it stands in the document.
CellText(c, trim) == IF trim THEN strip(c.text) ELSE c.text
CellTexts(cells, trim) == [i \in 1..Len(cells) |-> CellText(cells[i], trim)]
ButLast(s) == [i \in 1..(IF Len(s) > 0 THEN Len(s) - 1 ELSE 0) |-> s[i]]

\* The data rows of a document, each without its trailing cell.
DataRows(doc, trim) ==
    IF ~doc.table.some THEN <<>>
    ELSE LET trs == DataTrs(doc.table.val) IN
         [j \in 1..Len(trs) |-> ButLast(CellTexts(DataCells(trs[j]), trim))]

RECURSIVE ConcatRows(_, _)
ConcatRows(ds, trim) ==
    IF ds = <<>> THEN <<>> ELSE DataRows(Head(ds), trim) \o ConcatRows(Tail(ds), trim)

RECURSIVE SumRowCounts(_)
SumRowCounts(ds) ==
    IF ds = <<>> THEN 0
    ELSE (IF Head(ds).table.some THEN Len(DataTrs(Head(ds).table.val)) ELSE 0)
             + SumRowCounts(Tail(ds))

\* The header row of a document: the header cells of its table's first tr.
HeaderRowCells(doc) ==
    IF doc.table.some /\ doc.table.val # <<>>
    THEN SelectSeq(Head(doc.table.val), IsTh)
    ELSE <<>>

\* Every header cell of a document's table.
AllHeaderCells(doc) == IF doc.table.some THEN HeaderCells(doc.table.val) ELSE <<>>

----------------------------------------------------------------------------
\* C1: for a total page count N >= 1, scrape_trades requests ?page=1, ?page=2,
\* ... in ascending order, no page twice and none skipped, never more than N;
\* when it returns it has requested exactly pages 1..N, and the frame has as
\* many rows as the N pages' tables have data rows in total.
C1_ExactlyNFetchesAndRowSum ==
    (total_pages.some /\ N >= 1) =>
        /\ Len(PagesRequested) <= N
        /\ \A i \in 1..Len(PagesRequested) : PagesRequested[i] = i
        /\ Returned =>
            /\ Len(PagesRequested) = N
            /\ Len(docs) = N
            /\ Len(df.val.rows) = SumRowCounts(docs)

C1_Witness ==
    /\ Returned
    /\ total_pages = Some(3)
    /\ PagesRequested = <<1, 2, 3>>
    /\ Len(df.val.rows) = 4

\* C2 as stated: the frame's rows are the pages' data rows (their cell texts
\* as the Table Extractor reads them, trimmed), in page order and in-page
\* order, each without its trailing cell, and its header sequence is page 1's
\* header row, as it stands in the document, without its trailing column.
C2_Original ==
    (Returned /\ N >= 1) =>
        /\ df.val.rows = ConcatRows(docs, TRUE)
        /\ df.val.schema = Some(ButLast(CellTexts(HeaderRowCells(docs[1]), FALSE)))

\* C2 amended: the rows are the pages' data rows with every cell text trimmed,
\* each without its trailing cell, in page order and in-page order; the header
\* sequence is the trimmed texts of all header cells of page 1's table, in
\* document order, without the last.
C2_AggregatedTable ==
    (Returned /\ N >= 1) =>
        /\ df.val.rows = ConcatRows(docs, TRUE)
        /\ df.val.schema = Some(ButLast(CellTexts(AllHeaderCells(docs[1]), TRUE)))

\* The end-to-end fixture: headers A, B, Actions and the rows x y z and p q r.
C2_Witness ==
    /\ Returned
    /\ Len(docs) = 2
    /\ docs[1].table = Some(<<HeaderRow, <<td(tx), td(ty), td(tz)>>>>)
    /\ DataRows(docs[2], FALSE) = <<<<tp, tq>>>>
    /\ df.val.schema = Some(<<tA, tB>>)
    /\ df.val.rows = <<<<tx, ty>>, <<tp, tq>>>>

\* The document number_of_pages read lacks the page count: the paragraph is
\* missing, or holds fewer than two bold runs.
MarkupAbsent(doc) == ~doc.page_info.some \/ Len(doc.page_info.val) < 2

\* The last request was for the base URL and returned a document, which is soup.
CountRead ==
    /\ requests # <<>>
    /\ requests[Len(requests)] = base_url
    /\ ~(pc = "failed" /\ error = "HTTPError")

\* C3: when the page-count markup is absent, number_of_pages ends in an error
\* and yields no count: the run has failed there, no page was requested, no
\* frame was returned and nothing was written.
C3_AbsentCountIsAnError ==
    (CountRead /\ MarkupAbsent(soup)) =>
        /\ pc = "failed"
        /\ failed_in \in {"main", "count"}
        /\ error = "TypeError"
        /\ ~total_pages.some
        /\ PageRequests = <<>>
        /\ ~df.some
        /\ ~csv.some

C3_Witness ==
    /\ CountRead
    /\ soup.page_info = Some(<<str(1)>>)
    /\ failed_in = "count"
    /\ error = "TypeError"

\* C4 as stated: when the table element is absent from a page's document, the
\* extraction of that page does not fail and yields no rows, with or without a
\* header sequence passed in.
C4_AbsentTableGivesNoRows ==
    (docs # <<>> /\ ~docs[Len(docs)].table.some /\ pc # "extract") =>
        /\ failed_in # "extract"
        /\ page_rows = <<>>

\* The state of a run in which the fetch or the extraction of page p raised:
\* the script is over, the pages requested are 1..p, each once, no frame was
\* returned and no file was written.
FailedRun ==
    (failed_in \in {"fetch", "extract"}) =>
        /\ pc = "failed"
        /\ it <= N
        /\ PagesRequested = [i \in 1..it |-> i]
        /\ ~df.some
        /\ ~csv.some

\* C5: the scrape is fail-fast: an exception raised by the fetch or the
\* extraction of page p leaves the script with pages 1..p requested once each,
\* no frame and no file, and no step is taken once an exception was raised
\* (no later page, no retry).
C5_FailFast == []FailedRun /\ [][failed_in = "none"]_vars

\* Page 2 of 3 fails after page 1 gave rows.
C5_Witness ==
    /\ failed_in = "fetch"
    /\ total_pages = Some(3)
    /\ it = 2
    /\ all_rows # <<>>

\* C6 as stated: ?page=n is requested only for n in 2..N (page 1 is served by
\* the base URL).
C6_Original ==
    \A i \in 1..Len(PagesRequested) : PagesRequested[i] \in 2..N

\* C6 amended: the base URL is requested for count discovery only, once by
\* __main__ and once by scrape_trades, before any page; every page n in 1..N,
\* page 1 included, is requested as ?page=n.
C6_RequestedUrls ==
    /\ \A i \in 1..Len(requests) :
        IF i <= 2
        THEN requests[i] = <<"https://www.capitoltrades.com/trades">>
        ELSE /\ total_pages.some
             /\ i - 2 <= N
             /\ requests[i] = <<"https://www.capitoltrades.com/trades", "?page=", i - 2>>
    /\ Returned => Len(requests) = N + 2

C6_Witness ==
    /\ Returned
    /\ requests = <<base_url, base_url,
                    <<"https://www.capitoltrades.com/trades", "?page=", 1>>,
                    <<"https://www.capitoltrades.com/trades", "?page=", 2>>>>

\* The header sequence the Table Extractor derives from a document.
DerivedHeader(doc) == ButLast(CellTexts(AllHeaderCells(doc), TRUE))

NonEmptyPages == {i \in 1..Len(docs) : DataRows(docs[i], TRUE) # <<>>}
FirstNonEmptyPage == CHOOSE i \in NonEmptyPages : \A j \in NonEmptyPages : i <= j

\* C7 as stated: the frame's header sequence is the one of the first page
\* whose table yields at least one data row.
C7_Original ==
    (Returned /\ NonEmptyPages # {}) =>
        df.val.schema = Some(DerivedHeader(docs[FirstNonEmptyPage]))

\* C7 amended: the header sequence is the one derived from page 1, whether or
\* not page 1 yields a data row; from then on it is the same at every page and
\* in the frame.
C7_HeaderFromFirstPage ==
    /\ headers.some => (docs # <<>> /\ headers.val = DerivedHeader(docs[1]))
    /\ (Returned /\ N >= 1) => df.val.schema = Some(DerivedHeader(docs[1]))

\* Page 1 has a header and no data row, page 2 another header and a data row.
C7_Witness ==
    /\ Returned
    /\ Len(docs) >= 2
    /\ docs[1].table.some
    /\ DataRows(docs[1], TRUE) = <<>>
    /\ DataRows(docs[2], TRUE) # <<>>
    /\ DerivedHeader(docs[2]) # DerivedHeader(docs[1])

\* scrape_table was called on a document that holds the table.
TableCall == t_out.some /\ t_soup.table.some

\* Row j of the result is data row j's cell texts, trimmed, without the last.
RowsExtracted(rows, table) ==
    /\ Len(rows) = Len(DataTrs(table))
    /\ \A j \in 1..Len(rows) :
        LET cells == DataCells(DataTrs(table)[j]) IN
        /\ Len(cells) >= 1
        /\ Len(rows[j]) = Len(cells) - 1
        /\ \A i \in 1..Len(rows[j]) : rows[j][i] = strip(cells[i].text)

\* C8 as stated: from a table with n >= 1 header cells the derived header
\* sequence has length n-1 and is the header cell texts, in order, without the
\* last; a row with k >= 1 data cells gives a row of length k-1, the trimmed
\* cell texts without the last, and a row without data cells gives none.
C8_Original ==
    TableCall =>
        LET table == t_soup.table.val
            ths == HeaderCells(table)
            r == t_out.val
        IN  /\ r.ok
            /\ (~t_headers.some /\ Len(ths) >= 1) =>
                /\ Len(r.val.headers) = Len(ths) - 1
                /\ \A i \in 1..Len(r.val.headers) : r.val.headers[i] = ths[i].text
            /\ RowsExtracted(r.val.rows, table)

\* C8 amended: the derived header sequence is the trimmed header cell texts,
\* in order, without the last; the rest as stated.
C8_TrailingColumnDropped ==
    TableCall =>
        LET table == t_soup.table.val
            ths == HeaderCells(table)
            r == t_out.val
        IN  /\ r.ok
            /\ (~t_headers.some /\ Len(ths) >= 1) =>
                /\ Len(r.val.headers) = Len(ths) - 1
                /\ \A i \in 1..Len(r.val.headers) : r.val.headers[i] = strip(ths[i].text)
            /\ RowsExtracted(r.val.rows, table)

C8_Witness ==
    /\ TableCall
    /\ ~t_headers.some
    /\ t_soup.table.val = <<<<th(tA), th(<<" ", "B", "\n">>)>>, <<td(<<"x", " ">>), td(ty)>>>>
    /\ t_out.val = Return([rows |-> <<<<tx>>>>, headers |-> <<tA>>])

Scale(suf) == CASE suf = <<"K">> -> 1000 [] suf = <<"M">> -> 1000000 [] OTHER -> 1

\* C9: for a range a[K|M] en-dash b[K|M], parse_size gives a scaled by a's
\* suffix when minimum_val is true and b scaled by b's suffix when it is false;
\* a text that does not split on the en-dash into exactly two bounds ends in an
\* error and gives no value.
C9_ParseSize ==
    size_out.some =>
        LET i == size_in.val
            r == size_out.val
        IN  IF i.form = "range"
            THEN /\ r.ok
                 /\ r.val = IF minimum_val THEN i.a * Scale(i.asuf) ELSE i.b * Scale(i.bsuf)
            ELSE /\ ~r.ok
                 /\ r.err = "ValueError"

\* "1K-15M" with an en-dash: 1,000 and 15,000,000.
C9_Witness ==
    /\ size_out.some
    /\ size_str = <<"1", "K", EnDash, "1", "5", "M">>
    /\ size_out.val = IF minimum_val THEN Return(1000) ELSE Return(15000000)
    /\ ~minimum_val

\* Some data row of the document has not as many values as the header.
Mismatched(doc, hdrs) ==
    \E j \in 1..Len(DataRows(doc, TRUE)) : Len(DataRows(doc, TRUE)[j]) # Len(hdrs)

\* C10: when the rows of the page being extracted do not fit the header, the
\* step raises nothing and goes back to the loop, and every row of the page,
\* as extracted, is appended to all_rows.
C10_MismatchKept ==
    [][(pc = "extract" /\ soup.table.some /\ headers'.some
            /\ Mismatched(soup, headers'.val)) =>
        /\ pc' = "loop"
        /\ failed_in' = "none"
        /\ page_rows' = DataRows(soup, TRUE)
        /\ all_rows' = all_rows \o page_rows']_vars

\* A page was fetched after rows that do not fit the header were collected.
C10_Witness ==
    /\ pc = "extract"
    /\ it >= 2
    /\ Ragged

====
